---- MODULE Spec2Model ----
(***************************************************************************)
(* Model of the weighted-graph engine of src/lab2.py (class GrafoAereo):   *)
(* the graph store (agregar_aeropuerto, agregar_ruta), the connectivity    *)
(* analyser (es_conexo), Prim's minimum spanning tree weight, Dijkstra's   *)
(* shortest paths, the path reconstruction and the farthest airports.      *)
(*                                                                         *)
(* Airport codes are strings in the program; here they are the integers    *)
(* 1..MaxAirports, whose order stands for the lexicographic order Python   *)
(* uses when it compares heap tuples.  Distances are floats in the         *)
(* program; here they are integer kilometres (exact arithmetic).           *)
(***************************************************************************)
EXTENDS Integers, Sequences, FiniteSets, TLC

\* Number of distinct airport codes the loader may present to the store.
MaxAirports == 3

\* The value of an absent predecessor and of a call that returns nothing.
None == 0

\* float('infinity'): larger than the weight of any path of the model.
Infinity == 1000000

\* Kilometres per degree of arc on a sphere of radius R = 6371.0 km
\* (R * pi / 180 = 111.19...), in whole kilometres.
KmPerDegree == 111

Codes == 1..MaxAirports

\* Coordinates (latitud, longitud) in degrees: four points of the equator and
\* the north pole.
Puntos == << <<0, 0>>, <<0, 100>>, <<0, 170>>, <<0, -60>>, <<90, 0>> >>

\* The records the loader may present for a code: two per code, so that a code
\* can be presented again with other coordinates and two codes can share a
\* point (an edge of weight 0).
PuntosDe(codigo) ==
    {Puntos[((codigo - 1) % Len(Puntos)) + 1], Puntos[(codigo % Len(Puntos)) + 1]}

VARIABLES aeropuertos, adyacencias, ret

vars == <<aeropuertos, adyacencias, ret>>

Abs(x) == IF x < 0 THEN -x ELSE x

MinOf(a, b) == IF a <= b THEN a ELSE b

\* The haversine formula on the points above.  With an endpoint on a pole
\* cos(lat) = 0 and the central angle is |dlat|; with both endpoints on the
\* equator a = sin^2(dlon/2) and c = 2 atan2(|sin(dlon/2)|, |cos(dlon/2)|),
\* which is |dlon| up to 180 degrees and 360 - |dlon| beyond.
calcular_distancia_haversine(lat1, lon1, lat2, lon2) ==
    LET dlat == lat2 - lat1
        dlon == lon2 - lon1
        c == IF Abs(lat1) = 90 \/ Abs(lat2) = 90
             THEN Abs(dlat)
             ELSE MinOf(Abs(dlon), 360 - Abs(dlon))
    IN  KmPerDegree * c

\* self.aeropuertos is an insertion-ordered dict: a sequence of records.
ClavesDe(aers) == {aers[i].codigo : i \in 1..Len(aers)}

Claves == ClavesDe(aeropuertos)

ClavesEnOrden == [i \in 1..Len(aeropuertos) |-> aeropuertos[i].codigo]

AeropuertoDe(aers, codigo) ==
    LET i == CHOOSE j \in 1..Len(aers) : aers[j].codigo = codigo
    IN  aers[i]

\* any(vecino == codigo for vecino, _ in lista)
TieneVecino(lista, codigo) == \E i \in 1..Len(lista) : lista[i][1] = codigo

\* The graph, as a value: the two dicts of a GrafoAereo.
Grafo == [aeropuertos |-> aeropuertos, adyacencias |-> adyacencias]

GrafoVacio == [aeropuertos |-> <<>>, adyacencias |-> <<>>]

\* A store that replaces the record of a code presented again.
ConAeropuertoSobrescribe(g, codigo, latitud, longitud) ==
    IF codigo \notin ClavesDe(g.aeropuertos)
    THEN [aeropuertos |-> Append(g.aeropuertos,
              [codigo |-> codigo, latitud |-> latitud, longitud |-> longitud]),
          adyacencias |-> [c \in DOMAIN g.adyacencias \cup {codigo} |->
              IF c = codigo THEN <<>> ELSE g.adyacencias[c]]]
    ELSE [aeropuertos |-> [i \in 1..Len(g.aeropuertos) |->
              IF g.aeropuertos[i].codigo = codigo
              THEN [codigo |-> codigo, latitud |-> latitud, longitud |-> longitud]
              ELSE g.aeropuertos[i]],
          adyacencias |-> g.adyacencias]

\* agregar_aeropuerto on a graph value.
ConAeropuerto(g, codigo, latitud, longitud) ==
    IF codigo \notin ClavesDe(g.aeropuertos)
    THEN [aeropuertos |-> Append(g.aeropuertos,
              [codigo |-> codigo, latitud |-> latitud, longitud |-> longitud]),
          adyacencias |-> [c \in DOMAIN g.adyacencias \cup {codigo} |->
              IF c = codigo THEN <<>> ELSE g.adyacencias[c]]]
    ELSE g

\* A store that inserts the edge on the origin's side only.
ConRutaDirigida(g, codigo_origen, codigo_destino) ==
    IF codigo_origen \in ClavesDe(g.aeropuertos)
       /\ codigo_destino \in ClavesDe(g.aeropuertos)
    THEN LET origen == AeropuertoDe(g.aeropuertos, codigo_origen)
             destino == AeropuertoDe(g.aeropuertos, codigo_destino)
             distancia == calcular_distancia_haversine(
                              origen.latitud, origen.longitud,
                              destino.latitud, destino.longitud)
         IN  [aeropuertos |-> g.aeropuertos,
              adyacencias |->
                  IF ~TieneVecino(g.adyacencias[codigo_origen], codigo_destino)
                  THEN [g.adyacencias EXCEPT ![codigo_origen] =
                            Append(@, <<codigo_destino, distancia>>)]
                  ELSE g.adyacencias]
    ELSE g

\* A store that creates the adjacency list of an unknown endpoint instead of
\* ignoring the route.
ConRutaSinGuarda(g, codigo_origen, codigo_destino) ==
    IF codigo_origen \in ClavesDe(g.aeropuertos)
    THEN [aeropuertos |-> g.aeropuertos,
          adyacencias |-> [c \in DOMAIN g.adyacencias \cup {codigo_destino} |->
              IF c = codigo_origen /\ ~TieneVecino(g.adyacencias[c], codigo_destino)
              THEN Append(g.adyacencias[c], <<codigo_destino, 0>>)
              ELSE IF c \in DOMAIN g.adyacencias THEN g.adyacencias[c] ELSE <<>>]]
    ELSE g

\* agregar_ruta on a graph value: the two guarded appends.
ConRuta(g, codigo_origen, codigo_destino) ==
    IF codigo_origen \in ClavesDe(g.aeropuertos)
       /\ codigo_destino \in ClavesDe(g.aeropuertos)
    THEN LET origen == AeropuertoDe(g.aeropuertos, codigo_origen)
             destino == AeropuertoDe(g.aeropuertos, codigo_destino)
             distancia == calcular_distancia_haversine(
                              origen.latitud, origen.longitud,
                              destino.latitud, destino.longitud)
             ady1 == IF ~TieneVecino(g.adyacencias[codigo_origen], codigo_destino)
                     THEN [g.adyacencias EXCEPT ![codigo_origen] =
                               Append(@, <<codigo_destino, distancia>>)]
                     ELSE g.adyacencias
             ady2 == IF ~TieneVecino(ady1[codigo_destino], codigo_origen)
                     THEN [ady1 EXCEPT ![codigo_destino] =
                               Append(@, <<codigo_origen, distancia>>)]
                     ELSE ady1
         IN  [aeropuertos |-> g.aeropuertos, adyacencias |-> ady2]
    ELSE g

Init ==
    /\ aeropuertos = <<>>
    /\ adyacencias = <<>>
    /\ ret = [op |-> "init", err |-> "ok", valor |-> None]

agregar_aeropuerto(codigo, latitud, longitud) ==
    LET g == ConAeropuerto(Grafo, codigo, latitud, longitud)
    IN  /\ aeropuertos' = g.aeropuertos
        /\ adyacencias' = g.adyacencias
        /\ ret' = [op |-> "agregar_aeropuerto", err |-> "ok", valor |-> None]

agregar_ruta(codigo_origen, codigo_destino) ==
    LET g == ConRuta(Grafo, codigo_origen, codigo_destino)
    IN  /\ aeropuertos' = g.aeropuertos
        /\ adyacencias' = g.adyacencias
        /\ ret' = [op |-> "agregar_ruta", err |-> "ok", valor |-> None]

\* A traversal that marks the direct neighbours of nodo and goes no deeper.
dfs_sin_recursion(nodo, st) ==
    LET nuevos == [i \in 1..Len(adyacencias[nodo]) |-> adyacencias[nodo][i][1]]
        faltan == SelectSeq(nuevos, LAMBDA v : v \notin st.visitados /\ v # nodo)
    IN  [visitados |-> st.visitados \cup {nodo} \cup {faltan[i] : i \in 1..Len(faltan)},
         componente_actual |-> Append(st.componente_actual, nodo) \o faltan]

\* dfs (lines 172-179): visitados and componente_actual are shared with the
\* caller, so they are threaded through as st.
RECURSIVE dfs(_, _), dfs_vecinos(_, _, _)
dfs(nodo, st) ==
    dfs_vecinos(nodo, 1,
        [visitados |-> st.visitados \cup {nodo},
         componente_actual |-> Append(st.componente_actual, nodo)])

dfs_vecinos(nodo, i, st) ==
    IF i > Len(adyacencias[nodo])
    THEN st
    ELSE LET vecino == adyacencias[nodo][i][1]
         IN  dfs_vecinos(nodo, i + 1,
                 IF vecino \notin st.visitados THEN dfs(vecino, st) ELSE st)

\* The loop over self.aeropuertos (lines 182-186), from its i-th key on.
RECURSIVE Componentes(_, _, _)
Componentes(i, visitados, componentes) ==
    IF i > Len(aeropuertos)
    THEN componentes
    ELSE LET aeropuerto == aeropuertos[i].codigo
         IN  IF aeropuerto \notin visitados
             THEN LET st == dfs(aeropuerto,
                               [visitados |-> visitados, componente_actual |-> <<>>])
                  IN  Componentes(i + 1, st.visitados,
                                  Append(componentes, st.componente_actual))
             ELSE Componentes(i + 1, visitados, componentes)

\* The value es_conexo returns.
EsConexo ==
    IF Len(aeropuertos) = 0
    THEN [es_conexo |-> TRUE, num_componentes |-> 0, componentes |-> <<>>]
    ELSE LET componentes == Componentes(1, {}, <<>>)
             num_componentes == Len(componentes)
         IN  [es_conexo |-> num_componentes = 1,
              num_componentes |-> num_componentes,
              componentes |-> componentes]

es_conexo ==
    /\ ret' = [op |-> "es_conexo", err |-> "ok", valor |-> EsConexo]
    /\ UNCHANGED <<aeropuertos, adyacencias>>

Next ==
    \/ \E c \in Codes : \E p \in PuntosDe(c) : agregar_aeropuerto(c, p[1], p[2])
    \/ \E a \in Codes, b \in Codes : agregar_ruta(a, b)
    \/ es_conexo

Spec == Init /\ [][Next]_vars

(***************************************************************************)
(* The analysis calls.  They read the graph and keep no state between      *)
(* calls, so they are checked as functions of the graph: SpecQ draws a     *)
(* graph the store can build and applies one call to it (and, after        *)
(* dijkstra, one reconstruir_camino on the predecessors it returned).      *)
(***************************************************************************)

\* Number of airports of the graphs the analysis calls are applied to.
MaxNodes == 4

Nodos == 1..MaxNodes

\* Python's "<" on two tuples of numbers of the same length.
RECURSIVE TuplaMenor(_, _)
TuplaMenor(x, y) ==
    IF x = <<>>
    THEN FALSE
    ELSE IF Head(x) < Head(y) THEN TRUE
         ELSE IF Head(x) > Head(y) THEN FALSE
              ELSE TuplaMenor(Tail(x), Tail(y))

\* heapq keeps a list whose least item is popped first; only that is modelled.
heappush(heap, item) == Append(heap, item)

\* A queue that pops the item pushed last.
heappop_ultimo(heap) ==
    [item |-> heap[Len(heap)], heap |-> SubSeq(heap, 1, Len(heap) - 1)]

heappop(heap) ==
    LET i == CHOOSE j \in 1..Len(heap) :
                 \A k \in 1..Len(heap) : ~TuplaMenor(heap[k], heap[j])
    IN  [item |-> heap[i],
         heap |-> SubSeq(heap, 1, i - 1) \o SubSeq(heap, i + 1, Len(heap))]

\* A relaxation that records the new distance and forgets the predecessor.
RECURSIVE dijkstra_vecinos_sin_predecesor(_, _, _, _)
dijkstra_vecinos_sin_predecesor(nodo_actual, distancia_actual, i, st) ==
    IF i > Len(adyacencias[nodo_actual])
    THEN st
    ELSE LET vecino == adyacencias[nodo_actual][i][1]
             peso == adyacencias[nodo_actual][i][2]
             nueva_distancia == distancia_actual + peso
         IN  dijkstra_vecinos_sin_predecesor(nodo_actual, distancia_actual, i + 1,
                 IF vecino \in st.visitados
                 THEN st
                 ELSE IF nueva_distancia < st.distancias[vecino]
                      THEN [st EXCEPT
                                !.distancias[vecino] = nueva_distancia,
                                !.heap = heappush(@, <<nueva_distancia, vecino>>)]
                      ELSE st)

\* A relaxation that takes the weight of the edge for the distance of the
\* neighbour, as Prim's algorithm would.
RECURSIVE dijkstra_vecinos_solo_peso(_, _, _, _)
dijkstra_vecinos_solo_peso(nodo_actual, distancia_actual, i, st) ==
    IF i > Len(adyacencias[nodo_actual])
    THEN st
    ELSE LET vecino == adyacencias[nodo_actual][i][1]
             peso == adyacencias[nodo_actual][i][2]
             nueva_distancia == peso
         IN  dijkstra_vecinos_solo_peso(nodo_actual, distancia_actual, i + 1,
                 IF vecino \in st.visitados
                 THEN st
                 ELSE IF nueva_distancia < st.distancias[vecino]
                      THEN [st EXCEPT
                                !.distancias[vecino] = nueva_distancia,
                                !.predecesores[vecino] = nodo_actual,
                                !.heap = heappush(@, <<nueva_distancia, vecino>>)]
                      ELSE st)

\* The loop over the neighbours of nodo_actual (lines 279-289), from the i-th.
RECURSIVE dijkstra_vecinos(_, _, _, _)
dijkstra_vecinos(nodo_actual, distancia_actual, i, st) ==
    IF i > Len(adyacencias[nodo_actual])
    THEN st
    ELSE LET vecino == adyacencias[nodo_actual][i][1]
             peso == adyacencias[nodo_actual][i][2]
             nueva_distancia == distancia_actual + peso
         IN  dijkstra_vecinos(nodo_actual, distancia_actual, i + 1,
                 IF vecino \in st.visitados
                 THEN st
                 ELSE IF nueva_distancia < st.distancias[vecino]
                      THEN [st EXCEPT
                                !.distancias[vecino] = nueva_distancia,
                                !.predecesores[vecino] = nodo_actual,
                                !.heap = heappush(@, <<nueva_distancia, vecino>>)]
                      ELSE st)

\* The while loop (lines 269-289).  self.adyacencias[nodo_actual] raises
\* KeyError for a code without adjacency list.
RECURSIVE dijkstra_bucle(_)
dijkstra_bucle(st) ==
    IF st.heap = <<>>
    THEN st
    ELSE LET p == heappop(st.heap)
             distancia_actual == p.item[1]
             nodo_actual == p.item[2]
         IN  IF nodo_actual \in st.visitados
             THEN dijkstra_bucle([st EXCEPT !.heap = p.heap])
             ELSE IF nodo_actual \notin DOMAIN adyacencias
                  THEN [st EXCEPT !.err = "KeyError"]
                  ELSE dijkstra_bucle(
                           dijkstra_vecinos(nodo_actual, distancia_actual, 1,
                               [st EXCEPT !.heap = p.heap,
                                          !.visitados = @ \cup {nodo_actual}]))

\* What dijkstra(origen) returns or raises.
Dijkstra(origen) ==
    LET fin == dijkstra_bucle(
                   [distancias |-> [c \in Claves \cup {origen} |->
                                        IF c = origen THEN 0 ELSE Infinity],
                    predecesores |-> [c \in Claves |-> None],
                    heap |-> << <<0, origen>> >>,
                    visitados |-> {},
                    err |-> "ok"])
    IN  IF fin.err = "ok"
        THEN [err |-> "ok",
              valor |-> [distancias |-> fin.distancias,
                         predecesores |-> fin.predecesores]]
        ELSE [err |-> fin.err, valor |-> None]

Reverse(s) == [i \in 1..Len(s) |-> s[Len(s) + 1 - i]]

\* A walk that returns the codes as collected, destination first.
RECURSIVE reconstruir_bucle_sin_invertir(_, _, _)
reconstruir_bucle_sin_invertir(predecesores, nodo_actual, camino) ==
    IF nodo_actual = None
    THEN [err |-> "ok", valor |-> camino]
    ELSE IF Len(camino) > Cardinality(DOMAIN predecesores)
         THEN [err |-> "NoTermina", valor |-> None]
         ELSE IF nodo_actual \notin DOMAIN predecesores
              THEN [err |-> "KeyError", valor |-> None]
              ELSE reconstruir_bucle_sin_invertir(predecesores,
                       predecesores[nodo_actual], Append(camino, nodo_actual))

\* The walk of reconstruir_camino (lines 305-316).  A walk longer than the
\* number of keys has come back to a code and never ends: "NoTermina".
RECURSIVE reconstruir_bucle(_, _, _)
reconstruir_bucle(predecesores, nodo_actual, camino) ==
    IF nodo_actual = None
    THEN [err |-> "ok", valor |-> Reverse(camino)]
    ELSE IF Len(camino) > Cardinality(DOMAIN predecesores)
         THEN [err |-> "NoTermina", valor |-> None]
         ELSE IF nodo_actual \notin DOMAIN predecesores
              THEN [err |-> "KeyError", valor |-> None]
              ELSE reconstruir_bucle(predecesores, predecesores[nodo_actual],
                                     Append(camino, nodo_actual))

ReconstruirCamino(predecesores, destino) ==
    reconstruir_bucle(predecesores, destino, <<>>)

\* The edges of the first node (lines 222-224), from the i-th.
RECURSIVE prim_aristas_iniciales(_, _, _, _)
prim_aristas_iniciales(nodo_inicial, componente, i, heap_aristas) ==
    IF i > Len(adyacencias[nodo_inicial])
    THEN heap_aristas
    ELSE LET vecino == adyacencias[nodo_inicial][i][1]
             peso == adyacencias[nodo_inicial][i][2]
         IN  prim_aristas_iniciales(nodo_inicial, componente, i + 1,
                 IF \E j \in 1..Len(componente) : componente[j] = vecino
                 THEN heappush(heap_aristas, <<peso, nodo_inicial, vecino>>)
                 ELSE heap_aristas)

\* A frontier that takes the edges to airports outside the node list too.
RECURSIVE prim_aristas_sin_filtro(_, _, _, _, _)
prim_aristas_sin_filtro(nodo_fuera, componente, en_arbol, i, heap_aristas) ==
    IF i > Len(adyacencias[nodo_fuera])
    THEN heap_aristas
    ELSE LET vecino == adyacencias[nodo_fuera][i][1]
             peso_arista == adyacencias[nodo_fuera][i][2]
         IN  prim_aristas_sin_filtro(nodo_fuera, componente, en_arbol, i + 1,
                 IF vecino \notin en_arbol
                 THEN heappush(heap_aristas, <<peso_arista, nodo_fuera, vecino>>)
                 ELSE heap_aristas)

\* The edges of a node that joins the tree (lines 239-241), from the i-th.
RECURSIVE prim_aristas(_, _, _, _, _)
prim_aristas(nodo_fuera, componente, en_arbol, i, heap_aristas) ==
    IF i > Len(adyacencias[nodo_fuera])
    THEN heap_aristas
    ELSE LET vecino == adyacencias[nodo_fuera][i][1]
             peso_arista == adyacencias[nodo_fuera][i][2]
         IN  prim_aristas(nodo_fuera, componente, en_arbol, i + 1,
                 IF (\E j \in 1..Len(componente) : componente[j] = vecino)
                    /\ vecino \notin en_arbol
                 THEN heappush(heap_aristas, <<peso_arista, nodo_fuera, vecino>>)
                 ELSE heap_aristas)

\* The while loop (lines 227-241).
RECURSIVE prim_bucle(_, _)
prim_bucle(componente, st) ==
    IF ~(Cardinality(st.en_arbol) < Len(componente) /\ st.heap_aristas # <<>>)
    THEN st
    ELSE LET p == heappop(st.heap_aristas)
             peso == p.item[1]
             nodo_fuera == p.item[3]
         IN  IF nodo_fuera \in st.en_arbol
             THEN prim_bucle(componente, [st EXCEPT !.heap_aristas = p.heap])
             ELSE LET en_arbol == st.en_arbol \cup {nodo_fuera}
                  IN  prim_bucle(componente,
                          [en_arbol |-> en_arbol,
                           peso_total |-> st.peso_total + peso,
                           heap_aristas |-> prim_aristas(nodo_fuera, componente,
                                                en_arbol, 1, p.heap)])

\* What arbol_expansion_minima_prim(componente) returns or raises.
Prim(componente) ==
    IF componente = <<>>
    THEN [err |-> "ok", valor |-> 0]
    ELSE LET nodo_inicial == componente[1]
         IN  IF nodo_inicial \notin DOMAIN adyacencias
             THEN [err |-> "KeyError", valor |-> None]
             ELSE [err |-> "ok",
                   valor |-> prim_bucle(componente,
                       [en_arbol |-> {nodo_inicial},
                        peso_total |-> 0,
                        heap_aristas |-> prim_aristas_iniciales(
                            nodo_inicial, componente, 1, <<>>)]).peso_total]

\* The reachable airports other than the origin, in the order of the dict
\* distancias, which is the order of self.aeropuertos (lines 333-334), from
\* the i-th key on.
RECURSIVE distancias_alcanzables(_, _, _)
distancias_alcanzables(distancias, codigo_origen, i) ==
    IF i > Len(aeropuertos)
    THEN <<>>
    ELSE LET codigo == aeropuertos[i].codigo
             dist == distancias[codigo]
         IN  (IF dist # Infinity /\ codigo # codigo_origen
              THEN << <<codigo, dist>> >>
              ELSE <<>>)
             \o distancias_alcanzables(distancias, codigo_origen, i + 1)

\* An insertion that sorts by ascending distance.
InsertarAscendente(ordenada, x) ==
    LET antes == SelectSeq(ordenada, LAMBDA y : y[2] <= x[2])
        despues == SelectSeq(ordenada, LAMBDA y : y[2] > x[2])
    IN  antes \o <<x>> \o despues

\* list.sort(key=..., reverse=True) is stable: x goes after the items whose
\* distance is greater or equal (line 337).
Insertar(ordenada, x) ==
    LET antes == SelectSeq(ordenada, LAMBDA y : y[2] >= x[2])
        despues == SelectSeq(ordenada, LAMBDA y : y[2] < x[2])
    IN  antes \o <<x>> \o despues

RECURSIVE Ordenar(_, _)
Ordenar(lista, ordenada) ==
    IF lista = <<>>
    THEN ordenada
    ELSE Ordenar(Tail(lista), Insertar(ordenada, Head(lista)))

\* lista[:cantidad] (line 339).
Rebanar(lista, cantidad) ==
    IF cantidad >= 0
    THEN SubSeq(lista, 1, MinOf(cantidad, Len(lista)))
    ELSE SubSeq(lista, 1, Len(lista) + cantidad)

\* What obtener_aeropuertos_mas_lejanos returns or raises.
MasLejanos(codigo_origen, cantidad) ==
    LET r == Dijkstra(codigo_origen)
    IN  IF r.err # "ok"
        THEN r
        ELSE [err |-> "ok",
              valor |-> Rebanar(
                  Ordenar(distancias_alcanzables(r.valor.distancias,
                                                 codigo_origen, 1), <<>>),
                  cantidad)]

\* The graphs SpecQ draws.  The loader presents k airports, in ascending or
\* descending order of code, each with one of its two records, then a set of
\* routes in that order, with or without a route from the first code to
\* itself.
PuntoDe(codigo, s) ==
    IF s = 1
    THEN Puntos[((codigo - 1) % Len(Puntos)) + 1]
    ELSE Puntos[(codigo % Len(Puntos)) + 1]

EnOrden(k, invertido) == [i \in 1..k |-> IF invertido THEN k + 1 - i ELSE i]

RECURSIVE CargarAeropuertos(_, _, _)
CargarAeropuertos(g, codigos, sel) ==
    IF codigos = <<>>
    THEN g
    ELSE LET c == Head(codigos)
             p == PuntoDe(c, sel[c])
         IN  CargarAeropuertos(ConAeropuerto(g, c, p[1], p[2]), Tail(codigos), sel)

RECURSIVE CargarRutas(_, _, _, _)
CargarRutas(g, codigos, i, rutas) ==
    IF i > Len(codigos) * Len(codigos)
    THEN g
    ELSE LET a == codigos[((i - 1) \div Len(codigos)) + 1]
             b == codigos[((i - 1) % Len(codigos)) + 1]
         IN  CargarRutas(IF <<a, b>> \in rutas THEN ConRuta(g, a, b) ELSE g,
                         codigos, i + 1, rutas)

RutasPosibles(k) ==
    {<<a, b>> \in (1..k) \X (1..k) : a < b} \cup (IF k > 0 THEN {<<1, 1>>} ELSE {})

InitQ ==
    /\ \E k \in 0..MaxNodes, invertido \in BOOLEAN :
           \E sel \in [1..k -> {1, 2}], rutas \in SUBSET RutasPosibles(k) :
               LET g == CargarRutas(
                            CargarAeropuertos(GrafoVacio, EnOrden(k, invertido), sel),
                            EnOrden(k, invertido), 1, rutas)
               IN  /\ aeropuertos = g.aeropuertos
                   /\ adyacencias = g.adyacencias
    /\ ret = [op |-> "init", err |-> "ok", valor |-> None]

\* The node lists arbol_expansion_minima_prim is given: no code twice.
Listas ==
    {l \in UNION {[1..n -> Nodos] : n \in 0..MaxNodes} :
         \A i, j \in 1..Len(l) : l[i] = l[j] => i = j}

dijkstra(origen) ==
    /\ ret.op = "init"
    /\ LET r == Dijkstra(origen)
       IN  ret' = [op |-> "dijkstra", origen |-> origen,
                   err |-> r.err, valor |-> r.valor]
    /\ UNCHANGED <<aeropuertos, adyacencias>>

reconstruir_camino(destino) ==
    /\ ret.op = "dijkstra"
    /\ ret.err = "ok"
    /\ LET r == ReconstruirCamino(ret.valor.predecesores, destino)
       IN  ret' = [op |-> "reconstruir_camino", origen |-> ret.origen,
                   distancias |-> ret.valor.distancias,
                   predecesores |-> ret.valor.predecesores,
                   destino |-> destino, err |-> r.err, valor |-> r.valor]
    /\ UNCHANGED <<aeropuertos, adyacencias>>

\* componente is None (por_defecto) or the list given.
arbol_expansion_minima_prim(por_defecto, lista) ==
    /\ ret.op = "init"
    /\ LET componente == IF por_defecto THEN ClavesEnOrden ELSE lista
           r == Prim(componente)
       IN  ret' = [op |-> "arbol_expansion_minima_prim",
                   por_defecto |-> por_defecto, componente |-> componente,
                   err |-> r.err, valor |-> r.valor]
    /\ UNCHANGED <<aeropuertos, adyacencias>>

\* Largest cantidad the farthest-airport query is given.
MaxCantidad == 4

obtener_aeropuertos_mas_lejanos(codigo_origen, cantidad) ==
    /\ ret.op = "init"
    /\ LET r == MasLejanos(codigo_origen, cantidad)
       IN  ret' = [op |-> "obtener_aeropuertos_mas_lejanos",
                   codigo_origen |-> codigo_origen, cantidad |-> cantidad,
                   err |-> r.err, valor |-> r.valor]
    /\ UNCHANGED <<aeropuertos, adyacencias>>

NextQ ==
    \/ \E origen \in Nodos : dijkstra(origen)
    \/ \E destino \in Nodos : reconstruir_camino(destino)
    \/ \E lista \in Listas : arbol_expansion_minima_prim(FALSE, lista)
    \/ arbol_expansion_minima_prim(TRUE, <<>>)
    \/ \E codigo_origen \in Nodos, cantidad \in -1..MaxCantidad :
           obtener_aeropuertos_mas_lejanos(codigo_origen, cantidad)

SpecQ == InitQ /\ [][NextQ]_vars

(***************************************************************************)
(* Reference definitions the claims are stated against.                    *)
(***************************************************************************)
VecinosDe(u) == {adyacencias[u][i][1] : i \in 1..Len(adyacencias[u])}

RECURSIVE Cierre(_)
Cierre(S) ==
    LET T == S \cup UNION {VecinosDe(u) : u \in S}
    IN  IF T = S THEN S ELSE Cierre(T)

\* The airports joined to u by some path of routes.
Alcanzables(u) == Cierre({u})

ElementosDe(lista) == {lista[i] : i \in 1..Len(lista)}

RECURSIVE Aplanar(_)
Aplanar(listas) ==
    IF listas = <<>> THEN <<>> ELSE Head(listas) \o Aplanar(Tail(listas))

SinRepetidos(lista) ==
    \A i, j \in 1..Len(lista) : lista[i] = lista[j] => i = j

\* C3: es_conexo returns components in which every airport code appears
\* exactly once overall, each component is a maximal set of mutually reachable
\* airports, the count is the number of components, and es_conexo is true iff
\* there is exactly one component or no airport at all, when the result is
\* (True, 0, []).
C3_Componentes ==
    ret.op = "es_conexo" =>
        LET r == ret.valor
            todos == Aplanar(r.componentes)
        IN  /\ SinRepetidos(todos)
            /\ ElementosDe(todos) = Claves
            /\ \A i \in 1..Len(r.componentes) :
                   /\ r.componentes[i] # <<>>
                   /\ \A u \in ElementosDe(r.componentes[i]) :
                          ElementosDe(r.componentes[i]) = Alcanzables(u)
            /\ r.num_componentes = Len(r.componentes)
            /\ r.es_conexo = (Len(r.componentes) = 1 \/ Claves = {})
            /\ Claves = {} =>
                   r = [es_conexo |-> TRUE, num_componentes |-> 0,
                        componentes |-> <<>>]

\* es_conexo has answered on a graph of three airports in two components, one
\* of them a pair joined by a route.
C3_Witness ==
    /\ ret.op = "es_conexo"
    /\ Len(aeropuertos) = 3
    /\ ret.valor.num_componentes = 2
    /\ ~ret.valor.es_conexo

\* C4: the adjacency relation is symmetric: whenever (v, w) is in u's
\* neighbour list, (u, w) is in v's neighbour list, with the same weight w.
C4_Simetria ==
    \A u \in DOMAIN adyacencias :
        \A i \in 1..Len(adyacencias[u]) :
            LET v == adyacencias[u][i][1]
                w == adyacencias[u][i][2]
            IN  /\ v \in DOMAIN adyacencias
                /\ \E j \in 1..Len(adyacencias[v]) : adyacencias[v][j] = <<u, w>>

\* A route of positive weight joins two distinct airports.
C4_Witness ==
    \E u \in DOMAIN adyacencias :
        \E i \in 1..Len(adyacencias[u]) :
            adyacencias[u][i][1] # u /\ adyacencias[u][i][2] > 0

\* C5: no airport is its own neighbour: the adjacency list of a code never
\* contains that same code.
C5_SinLazos ==
    \A u \in DOMAIN adyacencias : ~TieneVecino(adyacencias[u], u)

\* C6: re-adding is idempotent: no step that changes a mapping is
\* agregar_aeropuerto with a code that is present (whatever the coordinates of
\* the record) or agregar_ruta with a pair that is joined (in either
\* direction); no neighbour list holds two entries for one neighbour, and no
\* airport record and no entry of a neighbour list ever changes.
C6_Idempotencia ==
    [][ /\ \/ UNCHANGED <<aeropuertos, adyacencias>>
           \/ /\ \A c \in Claves : \A p \in PuntosDe(c) :
                     ~agregar_aeropuerto(c, p[1], p[2])
              /\ \A a, b \in Claves :
                     (TieneVecino(adyacencias[a], b) \/ TieneVecino(adyacencias[b], a))
                         => ~agregar_ruta(a, b)
        /\ \A u \in DOMAIN adyacencias' :
               SinRepetidos([i \in 1..Len(adyacencias'[u]) |-> adyacencias'[u][i][1]])
        /\ \A u \in DOMAIN adyacencias :
               /\ u \in DOMAIN adyacencias'
               /\ Len(adyacencias'[u]) >= Len(adyacencias[u])
               /\ \A i \in 1..Len(adyacencias[u]) :
                      adyacencias'[u][i] = adyacencias[u][i]
        /\ Len(aeropuertos') >= Len(aeropuertos)
        /\ \A i \in 1..Len(aeropuertos) : aeropuertos'[i] = aeropuertos[i]
      ]_vars

\* Two airports are joined by a route and the last call was agregar_ruta: the
\* store has been asked for routes on a graph where re-adding is possible.
C6_Witness ==
    /\ ret.op = "agregar_ruta"
    /\ Len(aeropuertos) = 3
    /\ \E u, v \in Claves : u # v /\ TieneVecino(adyacencias[u], v)

\* C8: agregar_ruta with an endpoint absent from the airport mapping leaves
\* both mappings unchanged and signals no error, so every code in the
\* adjacency mapping, as a key or as a neighbour, has an airport entry.
C8_RutaDesconocida ==
    /\ [](\A u \in DOMAIN adyacencias :
              u \in Claves /\ VecinosDe(u) \subseteq Claves)
    /\ [][\A a, b \in Codes :
              ((a \notin Claves \/ b \notin Claves) /\ agregar_ruta(a, b))
                  => /\ UNCHANGED <<aeropuertos, adyacencias>>
                     /\ ret'.err = "ok"
                     /\ ret'.valor = None]_vars

\* agregar_ruta has been called while some code had no airport entry, and a
\* route exists.
C8_Witness ==
    /\ ret.op = "agregar_ruta"
    /\ Claves # Codes
    /\ \E u \in Claves : adyacencias[u] # <<>>

(***************************************************************************)
(* Reference definitions for the analysis claims.                          *)
(***************************************************************************)
Minimo(S) == CHOOSE x \in S : \A y \in S : x <= y

\* The weight of the route between two neighbours.
Peso(u, v) ==
    LET i == CHOOSE j \in 1..Len(adyacencias[u]) : adyacencias[u][j][1] = v
    IN  adyacencias[u][i][2]

\* Bellman-Ford: up to n rounds of relaxing every route, until nothing
\* changes.
RECURSIVE BellmanFord(_, _)
BellmanFord(D, n) ==
    IF n = 0
    THEN D
    ELSE LET E == [v \in Claves |->
                     Minimo({D[v]} \cup {D[u] + Peso(u, v) :
                         u \in {x \in Claves : v \in VecinosDe(x) /\ D[x] < Infinity}})]
         IN  IF E = D THEN D ELSE BellmanFord(E, n - 1)

\* The least total weight of a path from o to each airport, Infinity if none.
DistanciasMinimas(o) ==
    BellmanFord([v \in Claves |-> IF v = o THEN 0 ELSE Infinity], Cardinality(Claves))

\* The routes with both endpoints in S, each once.
AristasDe(S) == {e \in S \X S : e[1] <= e[2] /\ e[2] \in VecinosDe(e[1])}

RECURSIVE CierrePor(_, _)
CierrePor(R, T) ==
    LET R2 == R \cup {e[2] : e \in {x \in T : x[1] \in R}}
                 \cup {e[1] : e \in {x \in T : x[2] \in R}}
    IN  IF R2 = R THEN R ELSE CierrePor(R2, T)

\* The routes T join all of S.
Conecta(S, T) == S = {} \/ CierrePor({CHOOSE u \in S : TRUE}, T) = S

RECURSIVE SumaAristas(_)
SumaAristas(T) ==
    IF T = {}
    THEN 0
    ELSE LET e == CHOOSE x \in T : TRUE
         IN  Peso(e[1], e[2]) + SumaAristas(T \ {e})

\* The weight of a minimum spanning tree of the subgraph induced by S.
PesoMST(S) ==
    Minimo({SumaAristas(T) : T \in {X \in SUBSET AristasDe(S) :
                Cardinality(X) = Cardinality(S) - 1 /\ Conecta(S, X)}})

RECURSIVE PesoCamino(_)
PesoCamino(camino) ==
    IF Len(camino) < 2
    THEN 0
    ELSE Peso(camino[1], camino[2]) + PesoCamino(Tail(camino))

\* C1: for an existing origin o, dijkstra(o) returns distance 0 for o and, for
\* every airport n reachable from o, the least total weight of a path from o
\* to n; so dist(o,n) <= dist(o,m) + dist(m,n) for every airport m, with
\* dist(m,n) taken from dijkstra(m).
C1_CaminosMinimos ==
    (ret.op = "dijkstra" /\ ret.origen \in Claves) =>
        /\ ret.err = "ok"
        /\ LET o == ret.origen
               d == ret.valor.distancias
               ref == DistanciasMinimas(o)
           IN  /\ DOMAIN d = Claves
               /\ d[o] = 0
               /\ \A n \in Alcanzables(o) :
                      /\ d[n] = ref[n]
                      /\ \A m \in Claves :
                             d[n] <= d[m] + Dijkstra(m).valor.distancias[n]

\* dijkstra has answered on four airports where the distance of an airport n
\* was lowered after it was first set: a neighbour q of n nearer to the origin
\* than n's predecessor offers a longer way to n.
C1_Witness ==
    /\ ret.op = "dijkstra"
    /\ ret.err = "ok"
    /\ Len(aeropuertos) = 4
    /\ \E n \in Claves :
           LET d == ret.valor.distancias
               p == ret.valor.predecesores[n]
           IN  /\ p \notin {None, ret.origen}
               /\ d[n] > d[p]
               /\ \E q \in VecinosDe(n) :
                      d[q] < d[p] /\ d[q] + Peso(q, n) > d[n]

\* C2: when the node list induces a connected subgraph, the value returned is
\* the weight of a minimum spanning tree of that subgraph, whichever node is
\* first in the list; it is the sum of all edge weights when the subgraph is a
\* tree, and 0 for the empty list.
C2_PesoMST ==
    ret.op = "arbol_expansion_minima_prim" =>
        LET S == ElementosDe(ret.componente)
        IN  /\ ret.componente = <<>> => (ret.err = "ok" /\ ret.valor = 0)
            /\ (S # {} /\ S \subseteq Claves /\ Conecta(S, AristasDe(S))) =>
                   /\ ret.err = "ok"
                   /\ ret.valor = PesoMST(S)
                   /\ Cardinality(AristasDe(S)) = Cardinality(S) - 1 =>
                          ret.valor = SumaAristas(AristasDe(S))

\* Prim has answered on a list of four airports whose subgraph is connected
\* and has a cycle: the tree leaves out a route of positive weight.
C2_Witness ==
    /\ ret.op = "arbol_expansion_minima_prim"
    /\ ret.err = "ok"
    /\ Len(ret.componente) = 4
    /\ ElementosDe(ret.componente) \subseteq Claves
    /\ Conecta(ElementosDe(ret.componente), AristasDe(ElementosDe(ret.componente)))
    /\ ret.componente[1] # 1
    /\ ret.valor > 0
    /\ ret.valor < SumaAristas(AristasDe(ElementosDe(ret.componente)))

\* C7: dijkstra and arbol_expansion_minima_prim given a code that is absent
\* from the airport mapping fail with a NotFound error.
C7_NoEncontrado ==
    /\ (ret.op = "dijkstra" /\ ret.origen \notin Claves) => ret.err = "NotFound"
    /\ (ret.op = "arbol_expansion_minima_prim"
           /\ ~(ElementosDe(ret.componente) \subseteq Claves)) => ret.err = "NotFound"

\* C9: for the predecessors dijkstra(o) returned and a destination d reachable
\* from o, reconstruir_camino ends and returns a list that starts with o, ends
\* with d, joins consecutive codes by routes of the graph and weighs
\* distancias[d]; for d = o it is [o].
C9_Camino ==
    (ret.op = "reconstruir_camino" /\ ret.destino \in Claves
        /\ ret.destino \in Alcanzables(ret.origen)) =>
        /\ ret.err = "ok"
        /\ LET camino == ret.valor
           IN  /\ camino # <<>>
               /\ camino[1] = ret.origen
               /\ camino[Len(camino)] = ret.destino
               /\ \A i \in 1..(Len(camino) - 1) : camino[i + 1] \in VecinosDe(camino[i])
               /\ PesoCamino(camino) = ret.distancias[ret.destino]
               /\ ret.destino = ret.origen => camino = <<ret.origen>>

\* A path of three airports or more has been reconstructed.
C9_Witness ==
    /\ ret.op = "reconstruir_camino"
    /\ ret.err = "ok"
    /\ Len(ret.valor) >= 3
    /\ ret.distancias[ret.destino] > 0

\* C10: in the result of dijkstra(o) every airport not reachable from o keeps
\* distance infinity and no predecessor, and every airport reachable from o
\* other than o has a finite distance and a predecessor; for a destination not
\* reachable from o, reconstruir_camino ends and returns a path that does not
\* begin at o.
C10_Inalcanzables ==
    /\ (ret.op = "dijkstra" /\ ret.origen \in Claves) =>
           /\ ret.err = "ok"
           /\ \A n \in Claves \ Alcanzables(ret.origen) :
                  /\ ret.valor.distancias[n] = Infinity
                  /\ ret.valor.predecesores[n] = None
           /\ \A n \in Alcanzables(ret.origen) \ {ret.origen} :
                  /\ ret.valor.distancias[n] < Infinity
                  /\ ret.valor.predecesores[n] # None
    /\ (ret.op = "reconstruir_camino" /\ ret.destino \in Claves
           /\ ret.destino \notin Alcanzables(ret.origen)) =>
           /\ ret.err = "ok"
           /\ ret.valor # <<>>
           /\ ret.valor[1] # ret.origen

\* A path has been reconstructed for a destination that has routes and is not
\* reachable from an origin that has routes.
C10_Witness ==
    /\ ret.op = "reconstruir_camino"
    /\ ret.destino \in Claves
    /\ ret.destino \notin Alcanzables(ret.origen)
    /\ VecinosDe(ret.destino) \ {ret.destino} # {}
    /\ VecinosDe(ret.origen) \ {ret.origen} # {}

\* C11: for an existing origin o and k >= 0, obtener_aeropuertos_mas_lejanos
\* returns exactly min(k, number of airports reachable from o other than o)
\* pairs (code, distance), none of them o or at infinite distance, by
\* non-increasing distance, each distance the shortest-path distance from o,
\* and no reachable airport left out is farther than one returned.
C11_MasLejanos ==
    (ret.op = "obtener_aeropuertos_mas_lejanos" /\ ret.codigo_origen \in Claves
        /\ ret.cantidad >= 0) =>
        /\ ret.err = "ok"
        /\ \A ref \in {DistanciasMinimas(ret.codigo_origen)},
              otros \in {Alcanzables(ret.codigo_origen) \ {ret.codigo_origen}} :
               LET v == ret.valor
                   dados == {v[i][1] : i \in 1..Len(v)}
               IN  /\ Len(v) = MinOf(ret.cantidad, Cardinality(otros))
                   /\ SinRepetidos([i \in 1..Len(v) |-> v[i][1]])
                   /\ \A i \in 1..Len(v) :
                          /\ v[i][1] # ret.codigo_origen
                          /\ v[i][1] \in otros
                          /\ v[i][2] # Infinity
                          /\ v[i][2] = ref[v[i][1]]
                   /\ \A i \in 1..(Len(v) - 1) : v[i][2] >= v[i + 1][2]
                   /\ \A n \in otros \ dados :
                          \A i \in 1..Len(v) : ref[n] <= v[i][2]

\* The two farthest of three reachable airports have been returned, by
\* decreasing distance, and the third, nearer one has been left out.
C11_Witness ==
    /\ ret.op = "obtener_aeropuertos_mas_lejanos"
    /\ ret.err = "ok"
    /\ ret.cantidad = 2
    /\ Len(ret.valor) = 2
    /\ ret.valor[1][2] > ret.valor[2][2]
    /\ Cardinality(Alcanzables(ret.codigo_origen)) = 4
    /\ \E n \in Alcanzables(ret.codigo_origen) \ {ret.codigo_origen} :
           ret.valor[2][2] > DistanciasMinimas(ret.codigo_origen)[n]

\* The nodes of the list S joined to primero by routes inside the list.
ParteAlcanzable(primero, S) == CierrePor({primero}, AristasDe(S))

\* C12: when the node list induces a disconnected subgraph, Prim's loop still
\* ends and the value returned is the weight of a minimum spanning tree of
\* the part of the list reachable, through routes inside the list, from the
\* first node of the list; the rest of the list adds nothing and no error is
\* signalled.
C12_MSTParcial ==
    (ret.op = "arbol_expansion_minima_prim" /\ ret.componente # <<>>
        /\ ElementosDe(ret.componente) \subseteq Claves
        /\ ~Conecta(ElementosDe(ret.componente),
                    AristasDe(ElementosDe(ret.componente)))) =>
        /\ ret.err = "ok"
        /\ ret.valor = PesoMST(ParteAlcanzable(ret.componente[1],
                                               ElementosDe(ret.componente)))

\* Prim has answered on a list of four airports of which three, joined in a
\* cycle, are reachable from the first: the value is positive and leaves out
\* a route of the cycle.
C12_Witness ==
    /\ ret.op = "arbol_expansion_minima_prim"
    /\ ret.err = "ok"
    /\ Len(ret.componente) = 4
    /\ ElementosDe(ret.componente) \subseteq Claves
    /\ LET S == ElementosDe(ret.componente)
           R == ParteAlcanzable(ret.componente[1], S)
       IN  /\ Cardinality(R) = 3
           /\ ret.valor > 0
           /\ ret.valor < SumaAristas(AristasDe(R))

====
